---- MODULE Spec2Model ----
(***************************************************************************)
(* Model of the video task tracker of src/App.tsx (the polling effect,     *)
(* the ref synchronisation effects and the handlers that touch history and *)
(* currentImage) and of the event-stream parser of the Hugging Face        *)
(* adapter (src/unnamed/part_000, extractCompleteEventData).               *)
(***************************************************************************)
EXTENDS Integers, Sequences, FiniteSets, TLC

(* ------------------------------ bounds -------------------------------- *)

\* number of images in the history restored from localStorage
NumImages == 2
\* number of restored records whose video was being generated at the reload
MaxRestoredPending == 1
\* number of poll cycles that may be in flight at the same time
MaxCycles == 2
\* number of clicks and selections the user makes in one run
MaxUserActions == 2
\* number of lines of an event stream
MaxLines == 4
\* number of lines of the response text of a result request
MaxResultLines == 2
\* number of times the user clicks Generate or Upscale in one run
MaxSubmissions == 2
\* number of elements of the array stored in localStorage
MaxStored == 2

ImageIds == 1..NumImages
\* task ids: those of the restored records, and one per click on Live
TaskIds == 1..(NumImages + MaxUserActions)

(* --------------------------- state ------------------------------------ *)

VARIABLES
    history,          \* useState<GeneratedImage[]>, App.tsx:143
    currentImage,     \* useState<GeneratedImage | null>, App.tsx:131
    historyRef,       \* useRef(history), App.tsx:190
    currentImageRef,  \* useRef(currentImage), App.tsx:191
    isLiveMode,       \* App.tsx:140
    error,            \* App.tsx:176
    cycles,           \* invocations of the interval callback awaiting Promise.all
    creates,          \* handleLiveClick calls awaiting createVideoTask(HF)
    remote,           \* what the remote service makes of each task
    userActions,      \* number of user actions so far
    nextTask,         \* next task id the remote service hands out
    last,             \* the step taken last (observation only)
    stream,           \* the lines of the response text handed to the parser
    parsed,           \* what extractCompleteEventData made of stream
    calls,            \* the adapter call of handleGenerate and of handleUpscale
    isLoading,        \* App.tsx:123
    isUpscaling,      \* App.tsx:126
    tempUpscaledImage, \* App.tsx:137
    nextId,           \* next id crypto.randomUUID() hands out
    submissions,      \* number of clicks on Generate and Upscale so far
    upscaledFor,      \* id of the image whose URL gave tempUpscaledImage (observation only)
    storage,          \* localStorage.getItem('ai_image_gen_history')
    now,              \* Date.now() when the history state is initialised
    loaded,           \* the initialiser of the history state has run
    isTranslating,    \* App.tsx:124
    isOptimizing,     \* App.tsx:125
    isDownloading,    \* App.tsx:127
    isUploading,      \* App.tsx:129
    ops               \* where each asynchronous handler stands

trackerVars == <<history, currentImage, historyRef, currentImageRef, isLiveMode,
                 error, cycles, creates, remote, userActions, nextTask, last>>
parserVars == <<stream, parsed>>
adapterVars == <<calls, isLoading, isUpscaling, tempUpscaledImage, nextId, submissions,
                 upscaledFor>>
storageVars == <<storage, now, loaded>>
busyVars == <<isTranslating, isOptimizing, isDownloading, isUploading, ops>>
vars == <<history, currentImage, historyRef, currentImageRef, isLiveMode, error,
          cycles, creates, remote, userActions, nextTask, last, stream, parsed,
          calls, isLoading, isUpscaling, tempUpscaledImage, nextId, submissions,
          upscaledFor, storage, now, loaded,
          isTranslating, isOptimizing, isDownloading, isUploading, ops>>

\* extractCompleteEventData has not run
NotRun == [kind |-> "none", value |-> "none"]

\* JavaScript values: undefined, a number, NaN, a string made of the text pre
\* followed by the decimal digits of v, and an object with a url property
Undefined == [t |-> "undefined", pre |-> "", v |-> 0]
Num(n) == [t |-> "number", pre |-> "", v |-> n]
NaN == [t |-> "NaN", pre |-> "", v |-> 0]
Str(pre, n) == [t |-> "string", pre |-> pre, v |-> n]
File(url) == [t |-> "object", pre |-> url, v |-> 0]

\* the two callers of the Hugging Face adapter
Callers == {"generate", "upscale"}
NoOutcome == [kind |-> "none", message |-> "", url |-> "undefined", seed |-> Undefined]
NoData == [first |-> Undefined, second |-> Undefined]
\* no response to the result GET yet
NoResult == [kind |-> "none", lines |-> <<>>]
\* no adapter call has been made
NoCall == [fn |-> "none", pc |-> "none", arg |-> 0, seed |-> Undefined,
           payload |-> [seed |-> Undefined, randomize |-> FALSE],
           enqueued |-> "none", posts |-> 0, gets |-> <<>>,
           result |-> NoResult, data |-> NoData, outcome |-> NoOutcome]
\* no adapter call, no busy flag, no upscale result
AdapterIdle ==
    /\ calls = [c \in Callers |-> NoCall]
    /\ isLoading = FALSE
    /\ isUpscaling = FALSE
    /\ tempUpscaledImage = "none"
    /\ nextId = NumImages + 1
    /\ submissions = 0
    /\ upscaledFor = 0

\* the stored history plays no part: the state was initialised from it
NoStorage == [kind |-> "missing", items |-> <<>>]
StorageIdle ==
    /\ storage = NoStorage
    /\ now = 0
    /\ loaded = TRUE

\* the handlers that set a busy flag
Operations == {"generate", "optimize", "download", "upload"}
\* no handler is running and no busy flag is set
BusyIdle ==
    /\ isTranslating = FALSE
    /\ isOptimizing = FALSE
    /\ isDownloading = FALSE
    /\ isUploading = FALSE
    /\ ops = [o \in Operations |-> "idle"]

\* the value null of currentImage
NoImage ==
    [id |-> 0, url |-> "original", isUpscaled |-> FALSE, isBlurred |-> FALSE,
     videoStatus |-> "none", videoTaskId |-> 0,
     videoProvider |-> "none", videoUrl |-> 0, videoError |-> "none"]

\* a GeneratedImage as handleGenerate stores it: no video field is set
FreshImage(i) == [NoImage EXCEPT !.id = i]

\* the URL the remote service reports for a finished task
VideoUrlOf(t) == t
\* the URL createVideoTaskHF resolves to
HFVideoUrl == NumImages + MaxUserActions + 1

Providers == {"huggingface", "gitee", "modelscope"}

(* --------------------------- helpers ---------------------------------- *)

\* prev.map(img => img.id === x.id ? x : img)
ReplaceById(h, x) == [k \in 1..Len(h) |-> IF h[k].id = x.id THEN x ELSE h[k]]

\* image.videoUrl && image.videoStatus === 'success'
HasVideo(img) == img.videoUrl # 0 /\ img.videoStatus = "success"

\* the filter of the interval callback
IsPending(img) ==
    /\ img.videoStatus = "generating"
    /\ img.videoTaskId # 0
    /\ img.videoProvider = "gitee"

PendingVideos(h) == SelectSeq(h, IsPending)

\* React commits state set after an await (in a promise continuation): the
\* effects of the previous commit have been flushed by then, the two ref
\* effects of this commit run later, as a task of their own
Commit(h, c) ==
    /\ history' = h
    /\ currentImage' = c
    /\ historyRef' = history
    /\ currentImageRef' = currentImage

\* React commits state set in a click handler: the effects of a commit caused
\* by a discrete event are flushed together with the commit
SyncCommit(h, c) ==
    /\ history' = h
    /\ currentImage' = c
    /\ historyRef' = h
    /\ currentImageRef' = c

NoCommit == UNCHANGED <<history, currentImage, historyRef, currentImageRef>>

\* the step taken last: the cycle that a merge has just finished, nothing else
Other == [op |-> "other", cycle |-> <<>>]

(* --------------------------- Init -------------------------------------- *)

\* a record saved by an earlier session after createVideoTask had returned
\* task id t for it
PendingImage(i, t) ==
    [FreshImage(i) EXCEPT !.videoStatus = "generating", !.videoTaskId = t,
                          !.videoProvider = "gitee"]

\* the state after mount: history as parsed from localStorage, and the
\* initial selection effect has made its first record the current image
Init ==
    /\ history \in [ImageIds -> UNION {{FreshImage(i), PendingImage(i, i)} : i \in ImageIds}]
    /\ \A i \in ImageIds : history[i].id = i
    /\ Cardinality({i \in ImageIds : IsPending(history[i])}) <= MaxRestoredPending
    /\ currentImage = history[1]
    /\ historyRef = history
    /\ currentImageRef = currentImage
    /\ isLiveMode = FALSE
    /\ error = "none"
    /\ cycles = <<>>
    /\ creates = {}
    /\ remote \in [TaskIds -> {"unborn", "success", "failed", "hung"}]
    /\ \A t \in TaskIds :
          remote[t] = "unborn" <=> (t \notin ImageIds \/ ~IsPending(history[t]))
    /\ nextTask = NumImages + 1
    /\ userActions = 0
    /\ last = Other
    /\ stream = <<>>
    /\ parsed = NotRun
    /\ AdapterIdle
    /\ StorageIdle
    /\ BusyIdle

(* --------------------------- effects ----------------------------------- *)

\* useEffect(() => { historyRef.current = history }, [history]) and
\* useEffect(() => { currentImageRef.current = currentImage }, [currentImage])
RunEffects ==
    /\ historyRef # history \/ currentImageRef # currentImage
    /\ historyRef' = history
    /\ currentImageRef' = currentImage
    /\ last' = Other
    /\ UNCHANGED parserVars
    /\ UNCHANGED adapterVars
    /\ UNCHANGED storageVars
    /\ UNCHANGED busyVars
    /\ UNCHANGED <<history, currentImage, isLiveMode, error, cycles, creates,
                   remote, userActions, nextTask>>

(* --------------------------- polling effect ---------------------------- *)

\* the async callback of pendingVideos.map resolved to null
NullResult == [kind |-> "null", status |-> "none", videoUrl |-> 0, error |-> "none"]
\* the async callback resolved to { id: img.id, ...result }
Update(s, u, e) == [kind |-> "update", status |-> s, videoUrl |-> u, error |-> e]

\* the interval callback up to await Promise.all: one getGiteeTaskStatus call
\* per element of pendingVideos
StartPolls(h) ==
    [k \in 1..Len(PendingVideos(h)) |->
        [id |-> PendingVideos(h)[k].id, task |-> PendingVideos(h)[k].videoTaskId]]

\* the interval fires; with pendingVideos empty the callback returns at once
Tick ==
    /\ Len(cycles) < MaxCycles
    /\ Len(PendingVideos(historyRef)) # 0
    /\ cycles' = Append(cycles, StartPolls(historyRef))
    /\ last' = Other
    /\ UNCHANGED parserVars
    /\ UNCHANGED adapterVars
    /\ UNCHANGED storageVars
    /\ UNCHANGED busyVars
    /\ UNCHANGED <<history, currentImage, historyRef, currentImageRef, isLiveMode,
                   error, creates, remote, userActions, nextTask>>

\* a callback that takes every status but 'success' for a failure
PollResultFailsUnfinished(result) ==
    IF result.status = "success"
    THEN Update(result.status, result.videoUrl, result.error)
    ELSE Update("failed", result.videoUrl, result.error)
\* what the async callback makes of the resolved getGiteeTaskStatus result
PollResult(result) ==
    IF result.status = "success" \/ result.status = "failed"
    THEN Update(result.status, result.videoUrl, result.error)
    ELSE NullResult

\* the answers { status, videoUrl?, error? } the service can give for task t:
\* not finished yet, or the outcome of the task with or without its detail
Replies(t) ==
    {[status |-> "in_progress", videoUrl |-> 0, error |-> "none"]} \cup
    CASE remote[t] = "success" ->
           {[status |-> "success", videoUrl |-> u, error |-> "none"] :
               u \in {0, VideoUrlOf(t)}}
      [] remote[t] = "failed" ->
           {[status |-> "failed", videoUrl |-> 0, error |-> e] :
               e \in {"none", "remote"}}
      [] OTHER -> {}

\* the getGiteeTaskStatus call rejected
Rejected == [status |-> "rejected", videoUrl |-> 0, error |-> "none"]

\* a catch block that reports the task as failed
CatchMarksFailed == Update("failed", 0, "none")
\* the catch block of the async callback
CatchResult == NullResult

\* what the async callback resolves to once its getGiteeTaskStatus call has
\* settled with reply
CallbackResult(reply) ==
    IF reply = Rejected THEN CatchResult ELSE PollResult(reply)

\* how the getGiteeTaskStatus call for task t can settle; a call for a task
\* the service is stuck on never settles
Outcomes(t) ==
    IF remote[t] = "hung" THEN {} ELSE Replies(t) \cup {Rejected}

\* the ways every call of cycle cy can have settled
Settled(cy) ==
    {rs \in [1..Len(cy) -> UNION {Outcomes(cy[k].task) : k \in 1..Len(cy)}] :
        \A k \in 1..Len(cy) : rs[k] \in Outcomes(cy[k].task)}

\* the polls of cycle cy, each with the reply it got and the element of the
\* array Promise.all resolves to
WithResults(cy, rs) ==
    [k \in 1..Len(cy) |-> [id |-> cy[k].id, task |-> cy[k].task,
                           reply |-> rs[k], res |-> CallbackResult(rs[k])]]

\* updates.filter(u => u !== null)
ValidUpdates(cy) == SelectSeq(cy, LAMBDA p : p.res.kind = "update")

HasUpdate(ups, id) == \E k \in 1..Len(ups) : ups[k].id = id
\* validUpdates.find(u => u.id === id)
FindUpdate(ups, id) ==
    ups[CHOOSE k \in 1..Len(ups) :
            ups[k].id = id /\ \A j \in 1..(k - 1) : ups[j].id # id].res

\* update.error || 'Video generation failed'
FailMsg(u) == IF u.error # "none" THEN u.error ELSE "default"

\* the callback of prev.map in the merge
MergeItem(item, ups) ==
    IF ~HasUpdate(ups, item.id) THEN item
    ELSE LET update == FindUpdate(ups, item.id) IN
         IF update.status = "success" /\ update.videoUrl # 0
         THEN [item EXCEPT !.videoStatus = "success", !.videoUrl = update.videoUrl]
         ELSE IF update.status = "failed"
         THEN [item EXCEPT !.videoStatus = "failed", !.videoError = FailMsg(update)]
         ELSE item

MergeHistoryOfSnapshot(h, ups) == [k \in 1..Len(historyRef) |-> MergeItem(historyRef[k], ups)]
\* prev.map(item => ...) of the merge
MergeHistory(h, ups) == [k \in 1..Len(h) |-> MergeItem(h[k], ups)]

\* the update the merge mirrors into currentImage: the one for the id that
\* currentImageRef.current holds
Relevant(ups) ==
    IF currentImageRef # NoImage /\ HasUpdate(ups, currentImageRef.id)
    THEN FindUpdate(ups, currentImageRef.id)
    ELSE NullResult

\* setCurrentImage(prev => prev ? { ...prev, ... } : null)
MergeCurrent(prev, ru) ==
    IF prev = NoImage THEN NoImage
    ELSE IF ru.status = "success" /\ ru.videoUrl # 0
    THEN [prev EXCEPT !.videoStatus = "success", !.videoUrl = ru.videoUrl]
    ELSE IF ru.status = "failed"
    THEN [prev EXCEPT !.videoStatus = "failed", !.videoError = FailMsg(ru)]
    ELSE prev

RemoveAt(s, c) == [k \in 1..(Len(s) - 1) |-> IF k < c THEN s[k] ELSE s[k + 1]]

\* every getGiteeTaskStatus call of cycle c has settled and Promise.all
\* resolves to rs: the rest of the interval callback
CycleMergeWith(c, rs) ==
    /\ LET ups == ValidUpdates(WithResults(cycles[c], rs))
           ru == Relevant(ups)
       IN IF Len(ups) > 0
          THEN /\ Commit(MergeHistory(history, ups), MergeCurrent(currentImage, ru))
               /\ isLiveMode' = IF ru.status = "success" /\ ru.videoUrl # 0
                                THEN TRUE ELSE isLiveMode
               /\ error' = IF ru.status = "failed" THEN FailMsg(ru) ELSE error
          ELSE /\ NoCommit
               /\ UNCHANGED <<isLiveMode, error>>
    /\ cycles' = RemoveAt(cycles, c)
    /\ last' = [op |-> "merge", cycle |-> WithResults(cycles[c], rs)]
    /\ UNCHANGED parserVars
    /\ UNCHANGED adapterVars
    /\ UNCHANGED storageVars
    /\ UNCHANGED busyVars
    /\ UNCHANGED <<creates, remote, userActions, nextTask>>

CycleMerge(c) == \E rs \in Settled(cycles[c]) : CycleMergeWith(c, rs)

\* a getGiteeTaskStatus call of the cycle never settles, so Promise.all never
\* resolves and the callback never resumes: the cycle has no further effect
CycleStalls(c) ==
    /\ \E k \in 1..Len(cycles[c]) : remote[cycles[c][k].task] = "hung"
    /\ cycles' = RemoveAt(cycles, c)
    /\ last' = Other
    /\ UNCHANGED parserVars
    /\ UNCHANGED adapterVars
    /\ UNCHANGED storageVars
    /\ UNCHANGED busyVars
    /\ UNCHANGED <<history, currentImage, historyRef, currentImageRef, isLiveMode,
                   error, creates, remote, userActions, nextTask>>

(* --------------------------- handlers ---------------------------------- *)

UserActs ==
    /\ userActions < MaxUserActions
    /\ userActions' = userActions + 1

\* setTempUpscaledImage(null)
ClearTemp ==
    /\ tempUpscaledImage' = "none"
    /\ upscaledFor' = 0

HandleHistorySelect(k) ==
    /\ UserActs
    /\ LET image == history[k] IN
         /\ SyncCommit(history, image)
         /\ isLiveMode' = HasVideo(image)
    /\ error' = "none"
    /\ last' = Other
    /\ UNCHANGED parserVars
    /\ ClearTemp
    /\ UNCHANGED <<calls, isLoading, isUpscaling, nextId, submissions>>
    /\ UNCHANGED storageVars
    /\ UNCHANGED busyVars
    /\ UNCHANGED <<cycles, creates, remote, nextTask>>

HandleDelete ==
    /\ UserActs
    /\ currentImage # NoImage
    /\ LET newHistory == SelectSeq(history, LAMBDA img : img.id # currentImage.id) IN
         IF Len(newHistory) > 0
         THEN /\ SyncCommit(newHistory, newHistory[1])
              /\ isLiveMode' = HasVideo(newHistory[1])
         ELSE /\ SyncCommit(newHistory, NoImage)
              /\ isLiveMode' = FALSE
    /\ error' = "none"
    /\ last' = Other
    /\ UNCHANGED parserVars
    /\ ClearTemp
    /\ UNCHANGED <<calls, isLoading, isUpscaling, nextId, submissions>>
    /\ UNCHANGED storageVars
    /\ UNCHANGED busyVars
    /\ UNCHANGED <<cycles, creates, remote, nextTask>>

HandleToggleBlur ==
    /\ UserActs
    /\ currentImage # NoImage
    /\ LET updatedImage == [currentImage EXCEPT !.isBlurred = ~currentImage.isBlurred] IN
         SyncCommit(ReplaceById(history, updatedImage), updatedImage)
    /\ last' = Other
    /\ UNCHANGED parserVars
    /\ UNCHANGED adapterVars
    /\ UNCHANGED storageVars
    /\ UNCHANGED busyVars
    /\ UNCHANGED <<isLiveMode, error, cycles, creates, remote, nextTask>>

\* const loadingImage = { ...currentImage, videoStatus: 'generating', videoProvider }
LoadingImage(img, p) == [img EXCEPT !.videoStatus = "generating", !.videoProvider = p]

\* handleLiveClick up to its await (there is none for modelscope); provider is
\* the provider state at the time of the click, which the user sets at will;
\* each call awaits a request of its own, told apart by the number of the click
HandleLiveClick(provider) ==
    /\ UserActs
    /\ currentImage # NoImage
    /\ currentImage.videoStatus # "generating"
    /\ LET loadingImage == LoadingImage(currentImage, provider) IN
         SyncCommit(ReplaceById(history, loadingImage), loadingImage)
    /\ creates' = IF provider \in {"gitee", "huggingface"}
                  THEN creates \cup {[img |-> currentImage, provider |-> provider,
                                       click |-> userActions + 1]}
                  ELSE creates
    /\ last' = Other
    /\ UNCHANGED parserVars
    /\ UNCHANGED adapterVars
    /\ UNCHANGED storageVars
    /\ UNCHANGED busyVars
    /\ UNCHANGED <<isLiveMode, error, cycles, remote, nextTask>>

\* createVideoTask resolves to a task id; what becomes of the task at the
\* service is the service's choice
CreateTaskReturn(cr) ==
    /\ cr.provider = "gitee"
    /\ LET taskedImage ==
             [LoadingImage(cr.img, cr.provider) EXCEPT !.videoTaskId = nextTask] IN
         Commit(ReplaceById(history, taskedImage), taskedImage)
    /\ \E outcome \in {"success", "failed", "hung"} :
          remote' = [remote EXCEPT ![nextTask] = outcome]
    /\ nextTask' = nextTask + 1
    /\ creates' = creates \ {cr}
    /\ last' = Other
    /\ UNCHANGED parserVars
    /\ UNCHANGED adapterVars
    /\ UNCHANGED storageVars
    /\ UNCHANGED busyVars
    /\ UNCHANGED <<isLiveMode, error, cycles, userActions>>

\* createVideoTaskHF resolves to a video URL
CreateHFReturn(cr) ==
    /\ cr.provider = "huggingface"
    /\ LET successImage ==
             [LoadingImage(cr.img, cr.provider) EXCEPT
                 !.videoStatus = "success", !.videoUrl = HFVideoUrl] IN
         /\ Commit(ReplaceById(history, successImage),
                   IF currentImage # NoImage /\ currentImage.id = successImage.id
                   THEN successImage ELSE currentImage)
         /\ isLiveMode' = IF currentImageRef.id = successImage.id
                          THEN TRUE ELSE isLiveMode
    /\ creates' = creates \ {cr}
    /\ last' = Other
    /\ UNCHANGED parserVars
    /\ UNCHANGED adapterVars
    /\ UNCHANGED storageVars
    /\ UNCHANGED busyVars
    /\ UNCHANGED <<error, cycles, remote, userActions, nextTask>>

\* a catch block that records the message but forgets the status
FailedImageNoStatus(img) == [img EXCEPT !.videoError = "create"]
\* const failedImage = { ...currentImage, videoStatus: 'failed', videoError: e.message }
FailedImage(img) == [img EXCEPT !.videoStatus = "failed", !.videoError = "create"]

\* createVideoTask or createVideoTaskHF rejects: the catch block
CreateThrow(cr) ==
    /\ LET failedImage == FailedImage(cr.img) IN
         Commit(ReplaceById(history, failedImage),
                IF currentImage # NoImage /\ currentImage.id = failedImage.id
                THEN failedImage ELSE currentImage)
    /\ error' = "live"
    /\ creates' = creates \ {cr}
    /\ last' = Other
    /\ UNCHANGED parserVars
    /\ UNCHANGED adapterVars
    /\ UNCHANGED storageVars
    /\ UNCHANGED busyVars
    /\ UNCHANGED <<isLiveMode, cycles, remote, userActions, nextTask>>

(* --------------------------- event stream ------------------------------ *)

\* the lines sseStream.split('\n') can yield: head is what startsWith tests,
\* rest is what substring(6) or substring(5) leaves
EventLine(rest) == [head |-> "event:", rest |-> rest]
DataLine(rest) == [head |-> "data:", rest |-> rest]
BlankLine == [head |-> "", rest |-> ""]
Lines ==
    {EventLine(r) : r \in {" complete", " error", " heartbeat"}} \cup
    {DataLine(r) : r \in {" [1]", " [2]", " {bad"}} \cup {BlankLine}

\* String.prototype.trim on the rests above
Trim(rest) ==
    CASE rest = " complete" -> "complete"
      [] rest = " error" -> "error"
      [] rest = " heartbeat" -> "heartbeat"
      [] rest = " [1]" -> "[1]"
      [] rest = " [2]" -> "[2]"
      [] rest = " {bad" -> "{bad"
      [] OTHER -> rest

\* the texts JSON.parse accepts
ValidJson ==
    {"[1]", "[2]", "null", "[{\"url\":\"u\"},7]",
     "[{\"url\":\"u\"},\"Seed used for generation: 7\"]",
     "[{\"url\":\"u\"},\"seed 7\"]"}

Returns(v) == [kind |-> "return", value |-> v]
ThrowsQuota == [kind |-> "throw", value |-> "quota"]

\* a parser that forgets to reset the flag at an event of another type
OtherEventKeepsFlag(isCompleteEvent) == isCompleteEvent
\* isCompleteEvent = false; // Reset if it's another event type
OtherEventFlag(isCompleteEvent) == FALSE

\* the for loop of extractCompleteEventData from line i on
RECURSIVE ScanLines(_, _, _)
ScanLines(lines, i, isCompleteEvent) ==
    IF i > Len(lines) THEN Returns("null")
    ELSE IF lines[i].head = "event:"
    THEN IF Trim(lines[i].rest) = "complete" THEN ScanLines(lines, i + 1, TRUE)
         ELSE IF Trim(lines[i].rest) = "error" THEN ThrowsQuota
         ELSE ScanLines(lines, i + 1, OtherEventFlag(isCompleteEvent))
    ELSE IF lines[i].head = "data:" /\ isCompleteEvent
    THEN IF Trim(lines[i].rest) \in ValidJson
         THEN Returns(Trim(lines[i].rest))
         ELSE Returns("null")
    ELSE ScanLines(lines, i + 1, isCompleteEvent)

extractCompleteEventData(lines) == ScanLines(lines, 1, FALSE)

\* the streams of at most MaxLines lines
Streams == UNION {[1..n -> Lines] : n \in 0..MaxLines}

\* a response text arrives while the tracker is idle
ParserInit ==
    /\ stream \in Streams
    /\ parsed = NotRun
    /\ AdapterIdle
    /\ StorageIdle
    /\ BusyIdle
    /\ history = [i \in ImageIds |-> FreshImage(i)]
    /\ currentImage = history[1]
    /\ historyRef = history
    /\ currentImageRef = currentImage
    /\ isLiveMode = FALSE
    /\ error = "none"
    /\ cycles = <<>>
    /\ creates = {}
    /\ remote = [t \in TaskIds |-> "unborn"]
    /\ nextTask = NumImages + 1
    /\ userActions = 0
    /\ last = Other

\* const data = extractCompleteEventData(result)
Extract ==
    /\ parsed = NotRun
    /\ parsed' = extractCompleteEventData(stream)
    /\ UNCHANGED stream
    /\ UNCHANGED trackerVars
    /\ UNCHANGED adapterVars
    /\ UNCHANGED storageVars
    /\ UNCHANGED busyVars

ParserNext == Extract

ParserSpec == ParserInit /\ [][ParserNext]_vars

(* --------------------------- adapter ----------------------------------- *)

\* parseInt(seed, 10) on the contents of the seed input
ParseSeedInput(text) ==
    CASE text = "0" -> Num(0)
      [] text = "7" -> Num(7)
      [] OTHER -> NaN
\* the contents of the seed input: empty, digits, or something else
SeedTexts == {"", "0", "7", "x"}
\* const seedNumber = seed.trim() === '' ? undefined : parseInt(seed, 10)
SeedNumber(text) == IF text = "" THEN Undefined ELSE ParseSeedInput(text)

\* the values the || operator takes for false
Falsy(x) == x.t \in {"undefined", "NaN"} \/ (x.t = "number" /\ x.v = 0)
\* seed || 42
SeedOr42(seed) == IF Falsy(seed) THEN Num(42) ELSE seed

\* data: [prompt, seed || 42, seed === undefined, aspectRatio, 3, 8]
QwenPayload(seed) == [seed |-> SeedOr42(seed), randomize |-> (seed = Undefined)]
\* data: [prompt, height, width, 8, seed, false]
ZImagePayload(seed) == [seed |-> seed, randomize |-> FALSE]
\* data: [{path: url, ...}, 'RealESRGAN_x4plus', 0.5, false, 4]
UpscalerPayload == [seed |-> Undefined, randomize |-> FALSE]

\* Math.round(Math.random() * 2147483647)
RandomSeeds == {1, 7}

\* the function has sent its enqueue POST and awaits the response
StartCall(fn, seed, payload) ==
    [NoCall EXCEPT !.fn = fn, !.pc = "post", !.seed = seed,
                   !.payload = payload, !.posts = 1]

\* generateZImage up to its first await; the default value of the seed
\* parameter replaces undefined only
generateZImage(seed, random) ==
    LET s == IF seed = Undefined THEN Num(random) ELSE seed IN
    StartCall("zimage", s, ZImagePayload(s))
\* generateQwenImage up to its first await
generateQwenImage(seed) == StartCall("qwen", seed, QwenPayload(seed))
\* generateImage
generateImage(model, seed, random) ==
    IF model = "qwen-image-fast" THEN generateQwenImage(seed)
    ELSE generateZImage(seed, random)
\* upscaler up to its first await
upscaler(id) == [StartCall("upscaler", Undefined, UpscalerPayload) EXCEPT !.arg = id]

Models == {"qwen-image-fast", "z-image-turbo"}

\* the job identifiers the queue hands out
EventIds == {"e1"}
\* how the enqueue POST can end: fetch rejects, the body is not JSON, the
\* body is the JSON null, a JSON object without event_id, or one with it
EnqueueReplies == {"network error", "not json", "json null", "no event_id"} \cup EventIds
\* fetch or queue.json() or the destructuring throws
EnqueueThrows(reply) == reply \in {"network error", "not json", "json null"}
\* the identifier appended to the URL of the result GET
RequestedId(reply) == IF reply \in EventIds THEN reply ELSE "undefined"

\* the data payloads of a result stream, beside those of Lines
SeedPrefix == "Seed used for generation: "
PayloadNumber == "[{\"url\":\"u\"},7]"
PayloadSeedText == "[{\"url\":\"u\"},\"Seed used for generation: 7\"]"
PayloadOtherText == "[{\"url\":\"u\"},\"seed 7\"]"
ResultPayloads == {PayloadNumber, PayloadSeedText, PayloadOtherText, "[1]", "null", "{bad"}
\* JSON.parse on a text of ValidJson other than null: data[0] and data[1]
JsonParse(text) ==
    CASE text = PayloadNumber -> [first |-> File("u"), second |-> Num(7)]
      [] text = PayloadSeedText -> [first |-> File("u"), second |-> Str(SeedPrefix, 7)]
      [] text = PayloadOtherText -> [first |-> File("u"), second |-> Str("seed ", 7)]
      [] text = "[1]" -> [first |-> Num(1), second |-> Undefined]
      [] text = "[2]" -> [first |-> Num(2), second |-> Undefined]
      [] OTHER -> NoData

ResultLines ==
    {EventLine(r) : r \in {" complete", " error", " heartbeat"}} \cup
    {DataLine(r) : r \in ResultPayloads}
\* how the result GET can end: fetch rejects, or a response text
ResultReplies ==
    {[kind |-> "error", lines |-> <<>>]} \cup
    {[kind |-> "text", lines |-> l] :
        l \in UNION {[1..n -> ResultLines] : n \in 0..MaxResultLines}}

\* data[0].url
UrlOf(x) == IF x.t = "object" THEN x.pre ELSE "undefined"
\* data[1].replace('Seed used for generation: ', '')
RemovePrefix(x) == IF x.pre = SeedPrefix THEN Str("", x.v) ELSE x
\* parseInt on a string
ParseInt(x) == IF x.pre = "" THEN Num(x.v) ELSE NaN

Rejects(message) == [NoOutcome EXCEPT !.kind = "rejected", !.message = message]
Resolves(url, seed) == [NoOutcome EXCEPT !.kind = "resolved", !.url = url, !.seed = seed]

\* seed: data[1] of generateZImage
ZImageSeed(x) == x
\* seed: parseInt(data[1].replace('Seed used for generation: ', ''))
QwenSeed(x) == ParseInt(RemovePrefix(x))

\* what the function makes of the parsed payload
FromData(fn, data) ==
    CASE fn = "zimage" -> Resolves(UrlOf(data.first), ZImageSeed(data.second))
      [] fn = "qwen" ->
           IF data.second.t = "string"
           THEN Resolves(UrlOf(data.first), QwenSeed(data.second))
           ELSE Rejects("data[1].replace is not a function")
      [] OTHER -> Resolves(UrlOf(data.first), Undefined)

FromNullResolves == Resolves("undefined", Undefined)
\* data[0] of the null that extractCompleteEventData returned
FromNull == Rejects("Cannot read properties of null")

\* the function from const data = extractCompleteEventData(result) on
FromResult(fn, lines) ==
    LET r == extractCompleteEventData(lines) IN
    IF r = ThrowsQuota THEN Rejects("Your today's quota has been used up.")
    ELSE IF r.value = "null" THEN FromNull
    ELSE FromData(fn, JsonParse(r.value))

\* the payload that the parser returned for lines, NoData if none
DataOfResult(lines) ==
    LET r == extractCompleteEventData(lines) IN
    IF r.kind = "return" /\ r.value # "null" THEN JsonParse(r.value) ELSE NoData

\* (t as any)[err.message] || err.message || fallback; no key of the
\* translation table is the message of an error of the adapter
ErrorMessage(message, fallback) == IF message # "" THEN message ELSE fallback

\* the Generate button is enabled and the submission budget allows a click
CanGenerate == submissions < MaxSubmissions /\ ~isLoading

\* handleGenerate up to its await of generateImage, with the prompt not
\* blank, autoTranslate off and the provider huggingface
HandleGenerate(model, seedText, random) ==
    /\ CanGenerate
    /\ submissions' = submissions + 1
    /\ isLoading' = TRUE
    /\ error' = "none"
    /\ ClearTemp
    /\ isLiveMode' = FALSE
    /\ calls' = [calls EXCEPT !["generate"] = generateImage(model, SeedNumber(seedText), random)]
    /\ NoCommit
    /\ last' = Other
    /\ UNCHANGED <<isUpscaling, nextId>>
    /\ UNCHANGED <<cycles, creates, remote, userActions, nextTask>>
    /\ UNCHANGED parserVars
    /\ UNCHANGED storageVars
    /\ UNCHANGED busyVars

\* handleUpscale up to its await of upscaler; the toolbar that holds the
\* button is hidden while isLoading
HandleUpscale ==
    /\ submissions < MaxSubmissions
    /\ ~isLoading
    /\ currentImage # NoImage
    /\ ~isUpscaling
    /\ submissions' = submissions + 1
    /\ isUpscaling' = TRUE
    /\ error' = "none"
    /\ calls' = [calls EXCEPT !["upscale"] = upscaler(currentImage.id)]
    /\ NoCommit
    /\ last' = Other
    /\ UNCHANGED <<isLoading, tempUpscaledImage, nextId, isLiveMode, upscaledFor>>
    /\ UNCHANGED <<cycles, creates, remote, userActions, nextTask>>
    /\ UNCHANGED parserVars
    /\ UNCHANGED storageVars
    /\ UNCHANGED busyVars

\* the try block of handleGenerate after the await: the new record becomes
\* current and the head of history
GenerateResolved ==
    /\ Commit(<<FreshImage(nextId)>> \o history, FreshImage(nextId))
    /\ nextId' = nextId + 1
    /\ UNCHANGED error

GenerateRejectedSilently(message) ==
    /\ NoCommit
    /\ UNCHANGED <<error, nextId>>
\* the catch block of handleGenerate
GenerateRejected(message) ==
    /\ error' = ErrorMessage(message, "generationFailed")
    /\ NoCommit
    /\ UNCHANGED nextId

\* generateImage settles with outcome: the rest of handleGenerate
GenerateSettled(outcome) ==
    /\ IF outcome.kind = "resolved" THEN GenerateResolved
       ELSE GenerateRejected(outcome.message)
    /\ isLoading' = FALSE
    /\ UNCHANGED <<isUpscaling, tempUpscaledImage, upscaledFor>>

\* upscaler settles with outcome: the rest of handleUpscale
UpscaleSettled(outcome) ==
    /\ IF outcome.kind = "resolved"
       THEN /\ tempUpscaledImage' = outcome.url
            /\ upscaledFor' = calls["upscale"].arg
            /\ UNCHANGED error
       ELSE /\ tempUpscaledImage' = "none"
            /\ upscaledFor' = 0
            /\ error' = ErrorMessage(outcome.message, "error_upscale_failed")
    /\ isUpscaling' = FALSE
    /\ NoCommit
    /\ UNCHANGED <<isLoading, nextId>>

\* the adapter function of caller c settles, and its caller continues
CallSettled(c, call, outcome) ==
    /\ calls' = [calls EXCEPT ![c] = [call EXCEPT !.pc = outcome.kind, !.outcome = outcome]]
    /\ IF c = "generate" THEN GenerateSettled(outcome) ELSE UpscaleSettled(outcome)

\* the message of the error that ends the enqueue step
EnqueueError(reply) ==
    CASE reply = "network error" -> "Failed to fetch"
      [] reply = "not json" -> "Unexpected token < in JSON"
      [] OTHER -> "Cannot destructure property 'event_id' of null"

AfterEnqueueErrorRetries(c, call, reply) ==
    IF call.posts < 2
    THEN /\ calls' = [calls EXCEPT ![c] = [call EXCEPT !.posts = @ + 1]]
         /\ NoCommit
         /\ UNCHANGED <<error, isLoading, isUpscaling, tempUpscaledImage, nextId,
                        upscaledFor>>
    ELSE CallSettled(c, call, Rejects(EnqueueError(reply)))
\* what the function does when the enqueue step threw: the catch block
\* rethrows
AfterEnqueueError(c, call, reply) == CallSettled(c, call, Rejects(EnqueueError(reply)))

\* the enqueue POST of caller c ends with reply: const {event_id} = await
\* queue.json(), then the result GET is sent
EnqueueReturns(c, reply) ==
    /\ calls[c].pc = "post"
    /\ LET call == [calls[c] EXCEPT !.enqueued = reply] IN
         IF EnqueueThrows(reply)
         THEN AfterEnqueueError(c, call, reply)
         ELSE /\ calls' = [calls EXCEPT ![c] =
                    [call EXCEPT !.pc = "get", !.gets = Append(@, RequestedId(reply))]]
              /\ NoCommit
              /\ UNCHANGED <<error, isLoading, isUpscaling, tempUpscaledImage, nextId,
                             upscaledFor>>
    /\ last' = Other
    /\ UNCHANGED <<isLiveMode, submissions>>
    /\ UNCHANGED <<cycles, creates, remote, userActions, nextTask>>
    /\ UNCHANGED parserVars
    /\ UNCHANGED storageVars
    /\ UNCHANGED busyVars

\* the result GET of caller c ends with reply: the function parses the
\* text and returns or throws, and its caller continues
ResultReturns(c, reply) ==
    /\ calls[c].pc = "get"
    /\ IF reply.kind = "error"
       THEN /\ CallSettled(c, [calls[c] EXCEPT !.result = reply], Rejects("Failed to fetch"))
            /\ UNCHANGED parserVars
       ELSE /\ CallSettled(c, [calls[c] EXCEPT !.result = reply,
                                                  !.data = DataOfResult(reply.lines)],
                       FromResult(calls[c].fn, reply.lines))
            /\ stream' = reply.lines
            /\ parsed' = extractCompleteEventData(reply.lines)
    /\ last' = Other
    /\ UNCHANGED <<isLiveMode, submissions>>
    /\ UNCHANGED <<cycles, creates, remote, userActions, nextTask>>
    /\ UNCHANGED storageVars
    /\ UNCHANGED busyVars

\* the application with a restored history, before any click on Generate
AdapterInit ==
    /\ history = [i \in ImageIds |-> FreshImage(i)]
    /\ currentImage \in {NoImage, FreshImage(1)}
    /\ historyRef = history
    /\ currentImageRef = currentImage
    /\ isLiveMode = FALSE
    /\ error = "none"
    /\ cycles = <<>>
    /\ creates = {}
    /\ remote = [t \in TaskIds |-> "unborn"]
    /\ userActions = 0
    /\ nextTask = NumImages + 1
    /\ last = Other
    /\ stream = <<>>
    /\ parsed = NotRun
    /\ AdapterIdle
    /\ StorageIdle
    /\ BusyIdle

AdapterNext ==
    \/ \E model \in Models, seedText \in SeedTexts, random \in RandomSeeds :
          HandleGenerate(model, seedText, random)
    \/ HandleUpscale
    \/ \E c \in Callers, reply \in EnqueueReplies : EnqueueReturns(c, reply)
    \/ \E c \in Callers, reply \in ResultReplies : ResultReturns(c, reply)

AdapterSpec == AdapterInit /\ [][AdapterNext]_vars

(* --------------------------- stored history --------------------------- *)

\* const oneDayInMs = 24 * 60 * 60 * 1000
oneDayInMs == 24 * 60 * 60 * 1000

\* an element of the stored array: a record with its timestamp property,
\* or the JSON value null
StoredItem(img, ts) == [null |-> FALSE, img |-> img, timestamp |-> ts]
NullItem == [null |-> TRUE, img |-> NoImage, timestamp |-> Undefined]

\* Date.now() at the time the page is loaded
Nows == {2 * oneDayInMs, 3 * oneDayInMs}
\* the timestamp property of a stored record: a number or missing
StoredTimestamps ==
    {Num(n) : n \in {oneDayInMs - 1, oneDayInMs, oneDayInMs + 1,
                     2 * oneDayInMs, 2 * oneDayInMs + 1, 3 * oneDayInMs + 1}}
    \cup {Undefined}
StoredItems ==
    {StoredItem(img, ts) :
        img \in UNION {{FreshImage(i), PendingImage(i, i)} : i \in ImageIds},
        ts \in StoredTimestamps}
    \cup {NullItem}
\* what localStorage can hold under the key: nothing, the empty string, a
\* text that is not JSON, the JSON null, a JSON object, or a JSON array
StoredValues ==
    {[kind |-> k, items |-> <<>>] : k \in {"missing", "empty", "garbage", "null", "object"}}
    \cup {[kind |-> "array", items |-> s] :
             s \in UNION {[1..n -> StoredItems] : n \in 0..MaxStored}}

IsRecentOrPending(item, t) ==
    \/ item.timestamp.t = "number" /\ t - item.timestamp.v < oneDayInMs
    \/ item.img.videoStatus = "generating"
\* (now - img.timestamp) < oneDayInMs; with a timestamp that is no number
\* the difference is NaN and the comparison false
IsRecent(item, t) ==
    item.timestamp.t = "number" /\ t - item.timestamp.v < oneDayInMs

\* the initialiser of the history state
InitialHistory(saved, t) ==
    IF saved.kind \in {"missing", "empty"} THEN <<>>
    ELSE IF saved.kind # "array" THEN <<>>
    ELSE IF \E k \in 1..Len(saved.items) : saved.items[k].null THEN <<>>
    ELSE LET kept == SelectSeq(saved.items, LAMBDA item : IsRecent(item, t)) IN
         [k \in 1..Len(kept) |-> kept[k].img]

\* the page is about to be loaded with some value in localStorage
StorageInit ==
    /\ storage \in StoredValues
    /\ now \in Nows
    /\ loaded = FALSE
    /\ history = <<>>
    /\ currentImage = NoImage
    /\ historyRef = history
    /\ currentImageRef = currentImage
    /\ isLiveMode = FALSE
    /\ error = "none"
    /\ cycles = <<>>
    /\ creates = {}
    /\ remote = [t \in TaskIds |-> "unborn"]
    /\ nextTask = NumImages + 1
    /\ userActions = 0
    /\ last = Other
    /\ stream = <<>>
    /\ parsed = NotRun
    /\ AdapterIdle
    /\ BusyIdle

\* useState<GeneratedImage[]>(() => ...) runs its initialiser
LoadHistory ==
    /\ ~loaded
    /\ loaded' = TRUE
    /\ history' = InitialHistory(storage, now)
    /\ historyRef' = history'
    /\ UNCHANGED <<storage, now>>
    /\ UNCHANGED <<currentImage, currentImageRef, isLiveMode, error, cycles, creates,
                   remote, userActions, nextTask, last>>
    /\ UNCHANGED parserVars
    /\ UNCHANGED adapterVars
    /\ UNCHANGED busyVars

StorageNext == LoadHistory

StorageSpec == StorageInit /\ [][StorageNext]_vars

(* --------------------------- specification ----------------------------- *)

Next ==
    \/ RunEffects
    \/ Tick
    \/ \E c \in 1..Len(cycles) : CycleMerge(c)
    \/ \E c \in 1..Len(cycles) : CycleStalls(c)
    \/ \E k \in 1..Len(history) : HandleHistorySelect(k)
    \/ HandleDelete
    \/ HandleToggleBlur
    \/ \E p \in Providers : HandleLiveClick(p)
    \/ \E cr \in creates : CreateTaskReturn(cr)
    \/ \E cr \in creates : CreateHFReturn(cr)
    \/ \E cr \in creates : CreateThrow(cr)

Spec == Init /\ [][Next]_vars

(* ------------------------------ properties ----------------------------- *)

Terminal == {"success", "failed"}
InHistory(h, id) == \E k \in 1..Len(h) : h[k].id = id
RecordOf(h, id) == IF InHistory(h, id)
                   THEN h[CHOOSE k \in 1..Len(h) : h[k].id = id]
                   ELSE NoImage
\* record id is in history before and after the step
Stays(id) == InHistory(history, id) /\ InHistory(history', id)
StatusOf(h, id) == RecordOf(h, id).videoStatus

LiveClickStep ==
    \/ \E p \in Providers : HandleLiveClick(p)
    \/ \E cr \in creates : CreateTaskReturn(cr)

Started == cycles'[Len(cycles')]
PollsFor(cy, id) == {k \in 1..Len(cy) : cy[k].id = id}
PendingIn(h, id) == InHistory(h, id) /\ IsPending(RecordOf(h, id))

\* C2: a poll cycle issues exactly one getGiteeTaskStatus call for each
\* record that, when the cycle starts, is in history with videoStatus
\* 'generating', a videoTaskId and videoProvider 'gitee', and no call for
\* any other record.
C2_OnePollPerPending ==
    [][Len(cycles') = Len(cycles) + 1
       => \A id \in ImageIds :
             Cardinality(PollsFor(Started, id)) =
                 IF PendingIn(history, id) THEN 1 ELSE 0]_vars

\* C3: no poll cycle that starts after a record has become 'success' or
\* 'failed' in history issues a status poll for that record.
C3_NoPollOfTerminal ==
    [][Len(cycles') = Len(cycles) + 1
       => \A k \in 1..Len(Started) :
             ~ (InHistory(history, Started[k].id)
                /\ StatusOf(history, Started[k].id) \in Terminal)]_vars

\* C4: no two poll cycles handle the same record at the same time: while a
\* status poll for a task id is outstanding in one cycle, no other cycle in
\* flight has a status poll for that task id.
C4_NoOverlap ==
    \A c \in 1..Len(cycles) : \A d \in 1..Len(cycles) :
        c # d => \A k \in 1..Len(cycles[c]) : \A j \in 1..Len(cycles[d]) :
                    cycles[c][k].task # cycles[d][j].task

\* the step is the merge of a poll cycle, whose polls and results last' holds
Merged == last'.op = "merge"
\* the merge writes the update: a success with its URL, or a failure
Applies(u) == (u.status = "success" /\ u.videoUrl # 0) \/ u.status = "failed"
\* a cycle that starts polls every record that is pending in historyRef
PollsAllPending ==
    Len(cycles') = Len(cycles) + 1
    => \A id \in ImageIds :
          PendingIn(historyRef, id)
          => \E k \in 1..Len(Started) :
                /\ Started[k].id = id
                /\ Started[k].task = RecordOf(historyRef, id).videoTaskId

\* C5: a status poll that throws leaves its record in history exactly as it
\* was (still 'generating', not 'failed', still selected by the filter of a
\* later cycle), and the successes with a URL and the failures obtained for
\* the other records of the same cycle are still written to those records.
C5_ThrowIsolated ==
    [][/\ Merged =>
            \A k \in 1..Len(last'.cycle) :
               last'.cycle[k].reply = Rejected =>
                 /\ RecordOf(history', last'.cycle[k].id) = RecordOf(history, last'.cycle[k].id)
                 /\ \A j \in 1..Len(last'.cycle) :
                       /\ j # k
                       /\ Applies(last'.cycle[j].reply)
                       /\ InHistory(history, last'.cycle[j].id)
                       => StatusOf(history', last'.cycle[j].id) = last'.cycle[j].reply.status
       /\ PollsAllPending]_vars

\* a merged cycle in which one poll threw and another brought a terminal
\* result: the first record is still generating, the second is terminal
C5_Witness ==
    /\ last.op = "merge"
    /\ \E k \in 1..Len(last.cycle) : \E j \in 1..Len(last.cycle) :
          /\ last.cycle[k].reply = Rejected
          /\ PendingIn(history, last.cycle[k].id)
          /\ Applies(last.cycle[j].reply)
          /\ StatusOf(history, last.cycle[j].id) = last.cycle[j].reply.status

\* C6: every status-poll response with status 'success' or 'failed' makes
\* the matching record terminal in the merge: a 'success' sets videoStatus
\* 'success' and the result URL, a 'failed' sets videoStatus 'failed' and an
\* error message; none leaves the record 'generating'.
C6_TerminalApplied ==
    [][Merged =>
         \A k \in 1..Len(last'.cycle) :
            LET reply == last'.cycle[k].reply
                after == RecordOf(history', last'.cycle[k].id)
            IN  reply.status \in Terminal /\ Stays(last'.cycle[k].id)
                => /\ after.videoStatus = reply.status
                   /\ reply.status = "success" => after.videoUrl = reply.videoUrl
                   /\ reply.status = "failed" => after.videoError = FailMsg(reply)]_vars

VideoFields(img) == <<img.videoStatus, img.videoUrl, img.videoError>>

\* C7: when the merge of a poll cycle writes a terminal update to the record
\* that is displayed, currentImage and the history record with the same id
\* have the same videoStatus, videoUrl and videoError after the merge.
C7_CurrentMirrorsHistory ==
    [][Merged =>
         \A k \in 1..Len(last'.cycle) :
            /\ Applies(last'.cycle[k].reply)
            /\ currentImage # NoImage
            /\ last'.cycle[k].id = currentImage.id
            /\ Stays(currentImage.id)
            => VideoFields(currentImage') = VideoFields(RecordOf(history', currentImage'.id))]_vars

\* C8: a status-poll response that is neither 'success' nor 'failed' leaves
\* its record in history exactly as it was (so a later cycle polls it
\* again), and a cycle that got no terminal response changes none of
\* history, currentImage, isLiveMode and error.
C8_NonTerminalNoChange ==
    [][/\ Merged =>
            /\ \A k \in 1..Len(last'.cycle) :
                  last'.cycle[k].reply.status = "in_progress"
                  => RecordOf(history', last'.cycle[k].id) = RecordOf(history, last'.cycle[k].id)
            /\ (\A k \in 1..Len(last'.cycle) : last'.cycle[k].reply.status \notin Terminal)
               => UNCHANGED <<history, currentImage, isLiveMode, error>>
       /\ PollsAllPending]_vars

\* a merged cycle with a response that was not terminal, whose record is
\* still pending
C8_Witness ==
    /\ last.op = "merge"
    /\ \E k \in 1..Len(last.cycle) :
          /\ last.cycle[k].reply.status = "in_progress"
          /\ PendingIn(history, last.cycle[k].id)

(* ------------------------- progress of the tracker --------------------- *)

\* cycle c merges with results rs, among them a success with its URL or a
\* failure for record id
MergeDelivering(id) ==
    \E c \in 1..Len(cycles) : \E rs \in Settled(cycles[c]) :
        /\ \E k \in 1..Len(cycles[c]) : cycles[c][k].id = id /\ Applies(rs[k])
        /\ CycleMergeWith(c, rs)

\* the interval keeps firing, React runs the effects of every commit, a
\* callback stuck in Promise.all stays stuck, and the service does not
\* answer 'not finished' or fail for ever for a task that has finished
Fairness ==
    /\ WF_vars(Tick)
    /\ WF_vars(RunEffects)
    /\ WF_vars(\E c \in 1..Len(cycles) : CycleStalls(c))
    /\ \A id \in ImageIds : SF_vars(MergeDelivering(id))

FairSpec == Init /\ [][Next]_vars /\ Fairness

\* the task of the pending record id has finished at the service
Finished(id) ==
    /\ PendingIn(history, id)
    /\ remote[RecordOf(history, id).videoTaskId] \in Terminal

\* C9: a status poll that never returns stalls its own record only: every
\* pending record whose task has finished, so that its own status polls
\* return a terminal result, is eventually updated in history.
C9_OthersProceed ==
    \A id \in ImageIds : Finished(id) ~> ~ PendingIn(history, id)

(* ------------------------- event stream parser ------------------------- *)

HasErrorEvent(lines) ==
    \E i \in 1..Len(lines) :
        lines[i].head = "event:" /\ Trim(lines[i].rest) = "error"

\* C10: extractCompleteEventData throws the quota error for every stream
\* that has an 'event: error' line at any position, whatever complete
\* events with data come before or after it.
C10_ErrorAnywhereThrows ==
    parsed # NotRun /\ HasErrorEvent(stream) => parsed = ThrowsQuota

IsEvent(line, name) == line.head = "event:" /\ Trim(line.rest) = name
\* line j is the data line of the complete event at line i: the first data
\* line after it, with no other event line in between
DataOf(lines, i, j) ==
    /\ i < j
    /\ IsEvent(lines[i], "complete")
    /\ lines[j].head = "data:"
    /\ \A m \in (i + 1)..(j - 1) : lines[m].head = ""
\* the complete events of the stream that have a data line
CompleteBlocks(lines) ==
    {i \in 1..Len(lines) : \E j \in 1..Len(lines) : DataOf(lines, i, j)}
\* the last of them
LastBlock(lines) ==
    CHOOSE i \in CompleteBlocks(lines) : \A m \in CompleteBlocks(lines) : m <= i
\* the text of the data line of the complete event at line i
PayloadOf(lines, i) ==
    Trim(lines[CHOOSE j \in 1..Len(lines) : DataOf(lines, i, j)].rest)

\* C11: for a stream with several complete events that have data (and no
\* error event), extractCompleteEventData returns the parsed data of the
\* last complete event.
C11_LastCompleteWins ==
    /\ parsed # NotRun
    /\ ~ HasErrorEvent(stream)
    /\ Cardinality(CompleteBlocks(stream)) >= 2
    /\ PayloadOf(stream, LastBlock(stream)) \in ValidJson
    => parsed = Returns(PayloadOf(stream, LastBlock(stream)))

\* C12: for a stream without an error event in which no data line follows a
\* complete event, also when a complete event is followed by another event
\* type before any data line, extractCompleteEventData returns null and
\* does not throw.
C12_NoDataIsNull ==
    /\ parsed # NotRun
    /\ ~ HasErrorEvent(stream)
    /\ CompleteBlocks(stream) = {}
    => parsed = Returns("null")

\* a parsed stream with a complete event, then another event type, then a
\* data line
C12_Witness ==
    /\ parsed = Returns("null")
    /\ \E i \in 1..Len(stream) : \E m \in 1..Len(stream) : \E j \in 1..Len(stream) :
          /\ i < m /\ m < j
          /\ IsEvent(stream[i], "complete")
          /\ IsEvent(stream[m], "heartbeat")
          /\ stream[j].head = "data:"
    /\ CompleteBlocks(stream) = {}

(* --------------------------- C13 --------------------------------------- *)

\* the result GET of handleGenerate's call ends with a text for which
\* extractCompleteEventData returns null
GenerateGetsNull ==
    /\ calls["generate"].pc = "get"
    /\ calls'["generate"].pc # "get"
    /\ calls'["generate"].result.kind = "text"
    /\ extractCompleteEventData(calls'["generate"].result.lines) = Returns("null")

\* C13: when extractCompleteEventData returns null for the result of a
\* generation, generateImage rejects, handleGenerate sets a non-null error,
\* and no record is added to history or made the current image
C13_NullResultFails ==
    [][GenerateGetsNull =>
          /\ calls'["generate"].outcome.kind = "rejected"
          /\ error' # "none"
          /\ history' = history
          /\ currentImage' = currentImage]_vars

C13_Witness ==
    /\ calls["generate"].pc = "rejected"
    /\ calls["generate"].result.kind = "text"
    /\ extractCompleteEventData(calls["generate"].result.lines) = Returns("null")
    /\ error = "Cannot read properties of null"
    /\ ~isLoading
    /\ Len(history) = NumImages

(* --------------------------- C14 --------------------------------------- *)

\* C14: every result GET was sent after the enqueue POST returned and asks
\* for the event_id that the enqueue response carried; a call whose enqueue
\* response carries no event_id sends no result GET
C14_GetOnlyForEnqueuedId ==
    \A c \in Callers : \A k \in 1..Len(calls[c].gets) :
        /\ calls[c].enqueued \in EventIds
        /\ calls[c].gets[k] = calls[c].enqueued

(* --------------------------- C15 --------------------------------------- *)

\* C15: one submission is one attempt: a call of generateImage or upscaler
\* has sent exactly one enqueue POST and at most one result GET, also after
\* it failed
C15_OneAttempt ==
    \A c \in Callers :
        calls[c].pc # "none" => calls[c].posts = 1 /\ Len(calls[c].gets) <= 1

C15_Witness ==
    /\ calls["generate"].pc = "rejected"
    /\ calls["generate"].enqueued = "network error"
    /\ calls["generate"].posts = 1
    /\ calls["generate"].gets = <<>>
    /\ calls["upscale"].pc = "rejected"
    /\ Len(calls["upscale"].gets) = 1

(* --------------------------- C16 --------------------------------------- *)

\* C16: when the backend reports the seed as the string 'Seed used for
\* generation: N', the GeneratedImage that the adapter returns has the
\* integer N as its seed
C16_SeedIsInteger ==
    \A c \in Callers :
        /\ calls[c].pc = "resolved"
        /\ calls[c].fn \in {"zimage", "qwen"}
        /\ calls[c].data.second.t = "string"
        /\ calls[c].data.second.pre = SeedPrefix
        => calls[c].outcome.seed = Num(calls[c].data.second.v)

(* --------------------------- C17 --------------------------------------- *)

\* the adapter call of handleGenerate throws
GenerateThrows ==
    /\ calls["generate"].pc \in {"post", "get"}
    /\ calls'["generate"].pc = "rejected"
\* a click on Generate starts a new attempt
GenerateStarts ==
    /\ calls["generate"].pc \notin {"post", "get"}
    /\ calls'["generate"].pc = "post"

\* C17: when the adapter call of handleGenerate throws, error becomes a
\* non-empty message, history and currentImage stay as they are and
\* isLoading ends false; a new attempt clears the error of the previous one
C17_FailureReported ==
    [][/\ GenerateThrows =>
            /\ error' \notin {"none", ""}
            /\ error' = calls'["generate"].outcome.message
            /\ history' = history
            /\ currentImage' = currentImage
            /\ isLoading' = FALSE
       /\ GenerateStarts => error' = "none" /\ isLoading' = TRUE]_vars

\* two attempts, both failed: the second one started from the error of the
\* first
C17_Witness ==
    /\ submissions = 2
    /\ calls["upscale"].pc = "none"
    /\ calls["generate"].pc = "rejected"
    /\ Len(history) = NumImages
    /\ error = calls["generate"].outcome.message
    /\ error # "none"
    /\ ~isLoading

(* --------------------------- C18 --------------------------------------- *)

\* C18: for any record at most one video-creation request (createVideoTask
\* or createVideoTaskHF) is outstanding at any time
C18_OneCreatePerRecord ==
    \A a \in creates : \A b \in creates : a.img.id = b.img.id => a = b

(* --------------------------- C19 --------------------------------------- *)

\* a result stream that carries an image
ImageResult ==
    [kind |-> "text", lines |-> <<EventLine(" complete"), DataLine(PayloadNumber)>>]

\* the tracker while the user also generates, deletes and edits records:
\* the toolbar with Delete and Blur is hidden while isLoading
TrackerNext ==
    \/ RunEffects
    \/ Tick
    \/ \E c \in 1..Len(cycles) : CycleMerge(c)
    \/ ~isLoading /\ HandleDelete
    \/ ~isLoading /\ HandleToggleBlur
    \/ HandleGenerate("z-image-turbo", "7", 1)
    \/ EnqueueReturns("generate", "e1")
    \/ ResultReturns("generate", ImageResult)

TrackerSpec == Init /\ [][TrackerNext]_vars

\* the fields of a record that are no business of the merge
OtherFields(img) == <<img.id, img.isBlurred, img.videoTaskId, img.videoProvider>>

\* C19: the merge of a poll cycle keeps the length and the order of history
\* and changes nothing but videoStatus, videoUrl and videoError of records
\* for which the cycle received a terminal response, whatever was added to,
\* deleted from or edited in history while the polls were in flight
C19_MergeFrame ==
    [][Merged =>
         /\ Len(history') = Len(history)
         /\ \A k \in 1..Len(history) :
               /\ OtherFields(history'[k]) = OtherFields(history[k])
               /\ history'[k] # history[k] =>
                     \E j \in 1..Len(last'.cycle) :
                         /\ last'.cycle[j].id = history[k].id
                         /\ last'.cycle[j].reply.status \in Terminal]_vars

\* a merge has written a terminal response to a record that was edited,
\* after a record was added to history and another one deleted from it
C19_Witness ==
    /\ last.op = "merge"
    /\ Len(history) = NumImages
    /\ history[1].id > NumImages
    /\ \E k \in 1..Len(history) : \E j \in 1..Len(last.cycle) :
          /\ last.cycle[j].id = history[k].id
          /\ Applies(last.cycle[j].reply)
          /\ history[k].isBlurred
          /\ history[k].videoStatus = last.cycle[j].reply.status

(* --------------------------- C20 --------------------------------------- *)

\* C20: generateQwenImage sends an integer seed that the user supplied
\* unchanged as the seed of the enqueue payload, with randomize false; it
\* sends randomize true exactly when no seed was supplied
C20_SeedSentUnchanged ==
    \A c \in Callers :
        calls[c].fn = "qwen" =>
            /\ calls[c].seed.t = "number" =>
                    /\ calls[c].payload.seed = calls[c].seed
                    /\ calls[c].payload.randomize = FALSE
            /\ calls[c].payload.randomize <=> calls[c].seed = Undefined

(* --------------------------- C21 --------------------------------------- *)

\* the stored element that history record k was read from
StoredAs(k) ==
    {j \in 1..Len(storage.items) :
        ~storage.items[j].null /\ storage.items[j].img = history[k]}

\* C21: after history is initialised from localStorage every record in it
\* was stored with a timestamp less than 24 hours before now, whatever its
\* videoStatus, and history is empty if the stored value is missing or
\* cannot be parsed
C21_OnlyRecentRestored ==
    loaded =>
        /\ \A k \in 1..Len(history) :
              \E j \in StoredAs(k) :
                  /\ storage.items[j].timestamp.t = "number"
                  /\ now - storage.items[j].timestamp.v < 24 * 60 * 60 * 1000
        /\ storage.kind \in {"missing", "empty", "garbage"} => history = <<>>

\* of a record that is 'generating' and a day old and a record that is not,
\* only the second one is restored
C21_Witness ==
    /\ loaded
    /\ Len(storage.items) = 2
    /\ storage.items[1] = StoredItem(PendingImage(1, 1), Num(now - oneDayInMs))
    /\ storage.items[2] = StoredItem(FreshImage(2), Num(now - oneDayInMs + 1))
    /\ history = <<FreshImage(2)>>

(* --------------------------- C22 --------------------------------------- *)

\* the page is reloaded: the state is built anew from the history that the
\* persistence effect stored last, the initial selection effect makes its
\* first record current, and the callbacks and handlers that were waiting
\* are gone
Reload ==
    /\ UserActs
    /\ history' = historyRef
    /\ historyRef' = historyRef
    /\ currentImage' = IF Len(historyRef) > 0 THEN historyRef[1] ELSE NoImage
    /\ currentImageRef' = currentImage'
    /\ isLiveMode' = (Len(historyRef) > 0 /\ HasVideo(historyRef[1]))
    /\ error' = "none"
    /\ cycles' = <<>>
    /\ creates' = {}
    /\ last' = Other
    /\ UNCHANGED <<remote, nextTask>>
    /\ UNCHANGED parserVars
    /\ UNCHANGED adapterVars
    /\ UNCHANGED storageVars
    /\ UNCHANGED busyVars

\* no status poll hangs
NoneHung == \A t \in TaskIds : remote[t] # "hung"

\* the tracker with a service whose every call returns, and with reloads
LiveInit == Init /\ NoneHung
LiveNext ==
    \/ RunEffects
    \/ Tick
    \/ \E c \in 1..Len(cycles) : CycleMerge(c)
    \/ \E k \in 1..Len(history) : HandleHistorySelect(k)
    \/ HandleDelete
    \/ HandleToggleBlur
    \/ \E p \in {"gitee", "huggingface"} : HandleLiveClick(p)
    \/ \E cr \in creates : CreateTaskReturn(cr) /\ NoneHung'
    \/ \E cr \in creates : CreateHFReturn(cr)
    \/ \E cr \in creates : CreateThrow(cr)
    \/ Reload

\* the interval keeps firing, React runs the effects of every commit, every
\* creation request returns, and every task reports its terminal status
LiveFairness ==
    /\ WF_vars(Tick)
    /\ WF_vars(RunEffects)
    /\ WF_vars(\E cr \in creates :
                  (CreateTaskReturn(cr) /\ NoneHung') \/ CreateHFReturn(cr) \/ CreateThrow(cr))
    /\ \A id \in ImageIds : SF_vars(MergeDelivering(id))

LiveSpec == LiveInit /\ [][LiveNext]_vars /\ LiveFairness

\* C22: under fairness every history record with videoStatus 'generating'
\* eventually has videoStatus 'success' or 'failed' (or is deleted), also a
\* record restored as 'generating' by a reload
C22_GeneratingEnds ==
    \A id \in ImageIds :
        (StatusOf(history, id) = "generating")
            ~> (~InHistory(history, id) \/ StatusOf(history, id) \in Terminal)

(* --------------------------- C23 --------------------------------------- *)

\* C23: a status poll for a record uses the task id that the record's most
\* recent createVideoTask call returned: while the call made by a new click
\* on Live is awaited, no poll is started for the record with the task id of
\* an earlier video generation
C23_PollsLatestTask ==
    [][Len(cycles') = Len(cycles) + 1 =>
         \A k \in 1..Len(Started) :
            ~ \E cr \in creates :
                  cr.provider = "gitee" /\ cr.img.id = Started[k].id]_vars

(* --------------------------- C24 --------------------------------------- *)

\* the fields of a record that a video request has no business with
NonVideoFields(img) == <<img.id, img.url, img.isUpscaled, img.isBlurred>>

\* a creation request of handleLiveClick returns or throws
CreateSettles == creates' # creates /\ creates' \subseteq creates

\* C24: the outcome of a video request (task id assigned, success or
\* failure) changes only the video fields of its record: what was changed
\* in the record while the request was in flight (isBlurred, url,
\* isUpscaled) is preserved in history and in currentImage
C24_OutcomeKeepsEdits ==
    [][CreateSettles =>
         /\ \A k \in 1..Len(history) :
               NonVideoFields(history'[k]) = NonVideoFields(history[k])
         /\ \A cr \in creates \ creates' :
               currentImage.id = cr.img.id =>
                  NonVideoFields(currentImage') = NonVideoFields(currentImage)]_vars

(* --------------------------- C25 --------------------------------------- *)

\* C25: in every reachable state currentImage is null or a record whose id
\* is present in history
C25_CurrentInHistory ==
    currentImage = NoImage \/ InHistory(history, currentImage.id)

(* --------------------------- C26 --------------------------------------- *)

\* handleApplyUpscale; its button is in the toolbar
HandleApplyUpscale ==
    /\ UserActs
    /\ currentImage # NoImage
    /\ tempUpscaledImage # "none"
    /\ LET updatedImage ==
             [currentImage EXCEPT !.url = tempUpscaledImage, !.isUpscaled = TRUE] IN
         SyncCommit(ReplaceById(history, updatedImage), updatedImage)
    /\ ClearTemp
    /\ last' = Other
    /\ UNCHANGED <<calls, isLoading, isUpscaling, nextId, submissions>>
    /\ UNCHANGED <<isLiveMode, error, cycles, creates, remote, nextTask>>
    /\ UNCHANGED parserVars
    /\ UNCHANGED storageVars
    /\ UNCHANGED busyVars

\* handleCancelUpscale
HandleCancelUpscale ==
    /\ UserActs
    /\ tempUpscaledImage # "none"
    /\ ClearTemp
    /\ NoCommit
    /\ last' = Other
    /\ UNCHANGED <<calls, isLoading, isUpscaling, nextId, submissions>>
    /\ UNCHANGED <<isLiveMode, error, cycles, creates, remote, nextTask>>
    /\ UNCHANGED parserVars
    /\ UNCHANGED storageVars
    /\ UNCHANGED busyVars

\* the user upscales, generates, selects and deletes images; the toolbar
\* with Delete and Apply is hidden while isLoading
UpscaleNext ==
    \/ HandleUpscale
    \/ \E reply \in {"e1", "network error"} : EnqueueReturns("upscale", reply)
    \/ \E lines \in {ImageResult.lines, <<>>} :
          ResultReturns("upscale", [kind |-> "text", lines |-> lines])
    \/ HandleGenerate("z-image-turbo", "7", 1)
    \/ EnqueueReturns("generate", "e1")
    \/ ResultReturns("generate", ImageResult)
    \/ RunEffects
    \/ \E k \in 1..Len(history) : HandleHistorySelect(k)
    \/ ~isLoading /\ HandleDelete
    \/ ~isLoading /\ HandleApplyUpscale
    \/ ~isLoading /\ HandleCancelUpscale

UpscaleSpec == AdapterInit /\ [][UpscaleNext]_vars

\* C26: whenever tempUpscaledImage is non-null it is the upscale result of
\* the image that is displayed
C26_TempBelongsToCurrent ==
    tempUpscaledImage # "none" =>
        currentImage # NoImage /\ upscaledFor = currentImage.id

(* --------------------------- busy flags -------------------------------- *)

\* what no action of the busy handlers touches
BusyFrame ==
    /\ NoCommit
    /\ last' = Other
    /\ UNCHANGED <<isLiveMode, cycles, creates, remote, userActions, nextTask>>
    /\ UNCHANGED parserVars
    /\ UNCHANGED storageVars

\* handleGenerate with autoTranslate on, up to its await of translatePrompt;
\* the Generate button is disabled while isTranslating
HandleGenerateTranslating ==
    /\ CanGenerate
    /\ ~isTranslating
    /\ submissions' = submissions + 1
    /\ isLoading' = TRUE
    /\ error' = "none"
    /\ ClearTemp
    /\ isTranslating' = TRUE
    /\ ops' = [ops EXCEPT !["generate"] = "translate"]
    /\ NoCommit
    /\ last' = Other
    /\ isLiveMode' = FALSE
    /\ UNCHANGED <<calls, isUpscaling, nextId>>
    /\ UNCHANGED <<isOptimizing, isDownloading, isUploading>>
    /\ UNCHANGED <<cycles, creates, remote, userActions, nextTask>>
    /\ UNCHANGED parserVars
    /\ UNCHANGED storageVars

\* translatePrompt resolves or rejects: the finally block clears
\* isTranslating, and handleGenerate goes on to its await of generateImage
TranslateSettles(ok) ==
    /\ ops["generate"] = "translate"
    /\ isTranslating' = FALSE
    /\ ops' = [ops EXCEPT !["generate"] = "idle"]
    /\ calls' = [calls EXCEPT !["generate"] = generateImage("z-image-turbo", Undefined, 1)]
    /\ BusyFrame
    /\ UNCHANGED <<error, isLoading, isUpscaling, tempUpscaledImage, nextId, submissions,
                   upscaledFor>>
    /\ UNCHANGED <<isOptimizing, isDownloading, isUploading>>

\* handleOptimizePrompt up to its await of optimizePrompt; the prompt input
\* is given isOptimizing and offers no second click meanwhile
HandleOptimizePrompt ==
    /\ ~isOptimizing
    /\ isOptimizing' = TRUE
    /\ error' = "none"
    /\ ops' = [ops EXCEPT !["optimize"] = "optimize"]
    /\ BusyFrame
    /\ UNCHANGED adapterVars
    /\ UNCHANGED <<isTranslating, isDownloading, isUploading>>

\* optimizePrompt resolves or rejects: try, catch and finally
OptimizeSettles(ok) ==
    /\ ops["optimize"] = "optimize"
    /\ error' = IF ok THEN error
                ELSE ErrorMessage("HTTP error! status: 500", "error_prompt_optimization_failed")
    /\ isOptimizing' = FALSE
    /\ ops' = [ops EXCEPT !["optimize"] = "idle"]
    /\ BusyFrame
    /\ UNCHANGED adapterVars
    /\ UNCHANGED <<isTranslating, isDownloading, isUploading>>

\* handleDownload up to its first await
HandleDownload ==
    /\ ~isDownloading
    /\ isDownloading' = TRUE
    /\ ops' = [ops EXCEPT !["download"] = "fetch"]
    /\ BusyFrame
    /\ UNCHANGED error
    /\ UNCHANGED adapterVars
    /\ UNCHANGED <<isTranslating, isOptimizing, isUploading>>

\* where handleDownload waits next after the await at pc ended with outcome,
\* "idle" if it returns: the early return after a failed fetch, the outer
\* catch, the return after a share that succeeded or was cancelled, or the
\* end of the anchor download
DownloadGoes(pc, outcome) ==
    CASE pc = "fetch" /\ outcome = "ok" -> "blob"
      [] pc = "blob" /\ outcome = "webp" -> "convert"
      [] pc = "blob" /\ outcome = "mobile" -> "share"
      [] pc = "convert" /\ outcome \in {"mobile", "throws"} -> "share"
      [] OTHER -> "idle"
\* how an await of handleDownload can end
DownloadOutcomes == {"ok", "webp", "mobile", "throws", "abort"}

\* an await of handleDownload ends; every return passes the finally block
DownloadSettles(outcome) ==
    /\ ops["download"] # "idle"
    /\ LET next == DownloadGoes(ops["download"], outcome) IN
         /\ ops' = [ops EXCEPT !["download"] = next]
         /\ isDownloading' = IF next = "idle" THEN FALSE ELSE isDownloading
    /\ BusyFrame
    /\ UNCHANGED error
    /\ UNCHANGED adapterVars
    /\ UNCHANGED <<isTranslating, isOptimizing, isUploading>>

UploadEndsBusy(message) ==
    /\ error' = IF message = "" THEN error ELSE message
    /\ ops' = [ops EXCEPT !["upload"] = "idle"]
    /\ UNCHANGED isUploading
\* handleUploadToCloud returns, or throws the error with message: catch and
\* finally
UploadEnds(message) ==
    /\ error' = IF message = "" THEN error ELSE message
    /\ ops' = [ops EXCEPT !["upload"] = "idle"]
    /\ isUploading' = FALSE

\* (t as any)[e.message] || t.error_s3_upload_failed
UploadMessage(message) ==
    IF message = "error_storage_config_missing" THEN message ELSE "error_s3_upload_failed"

\* what handleUploadToCloud is given: a URL or a Blob, with the storage
\* configured or not
UploadInputs == {"url", "blob", "unconfigured"}

\* handleUploadToCloud up to its first await
HandleUploadToCloud(input) ==
    /\ ~isUploading
    /\ IF input = "unconfigured"
       THEN UploadEnds(UploadMessage("error_storage_config_missing"))
       ELSE /\ isUploading' = TRUE
            /\ ops' = [ops EXCEPT !["upload"] = IF input = "url" THEN "fetch" ELSE "upload"]
            /\ UNCHANGED error
    /\ BusyFrame
    /\ UNCHANGED adapterVars
    /\ UNCHANGED <<isTranslating, isOptimizing, isDownloading>>

\* an await of handleUploadToCloud ends: fetch, response.blob(), uploadToCloud
UploadSettles(ok) ==
    /\ ops["upload"] # "idle"
    /\ IF ~ok THEN UploadEnds(UploadMessage("Failed to fetch image for upload"))
       ELSE IF ops["upload"] = "upload" THEN UploadEnds("")
       ELSE /\ ops' = [ops EXCEPT !["upload"] =
                          IF ops["upload"] = "fetch" THEN "blob" ELSE "upload"]
            /\ UNCHANGED <<error, isUploading>>
    /\ BusyFrame
    /\ UNCHANGED adapterVars
    /\ UNCHANGED <<isTranslating, isOptimizing, isDownloading>>

BusyNext ==
    \/ HandleGenerateTranslating
    \/ \E ok \in BOOLEAN : TranslateSettles(ok)
    \/ HandleGenerate("z-image-turbo", "7", 1)
    \/ HandleUpscale
    \/ \E c \in Callers, reply \in {"e1", "network error"} : EnqueueReturns(c, reply)
    \/ \E c \in Callers, lines \in {ImageResult.lines, <<>>} :
          ResultReturns(c, [kind |-> "text", lines |-> lines])
    \/ HandleOptimizePrompt
    \/ \E ok \in BOOLEAN : OptimizeSettles(ok)
    \/ HandleDownload
    \/ \E outcome \in DownloadOutcomes : DownloadSettles(outcome)
    \/ \E input \in UploadInputs : HandleUploadToCloud(input)
    \/ \E ok \in BOOLEAN : UploadSettles(ok)

BusySpec == AdapterInit /\ [][BusyNext]_vars

(* --------------------------- C27 --------------------------------------- *)

\* the adapter call of caller c is awaited
Awaited(c) == calls[c].pc \in {"post", "get"}

\* C27: a busy flag is true only while its operation is in flight: once
\* handleGenerate, handleUpscale, handleOptimizePrompt, handleDownload or
\* handleUploadToCloud has finished, isLoading and isTranslating,
\* isUpscaling, isOptimizing, isDownloading or isUploading is false
C27_FlagsCleared ==
    /\ isLoading => ops["generate"] = "translate" \/ Awaited("generate")
    /\ isTranslating => ops["generate"] = "translate"
    /\ isUpscaling => Awaited("upscale")
    /\ isOptimizing => ops["optimize"] # "idle"
    /\ isDownloading => ops["download"] # "idle"
    /\ isUploading => ops["upload"] # "idle"

\* a generation and an upscale have failed, an upload has failed last, and
\* nothing is in flight
C27_Witness ==
    /\ calls["generate"].pc = "rejected"
    /\ calls["upscale"].pc = "rejected"
    /\ error = "error_s3_upload_failed"
    /\ \A o \in Operations : ops[o] = "idle"
    /\ ~isLoading /\ ~isTranslating /\ ~isUpscaling
    /\ ~isOptimizing /\ ~isDownloading /\ ~isUploading

====
